---- MODULE Spec2Model ----
(***************************************************************************)
(* Channel descriptor model of the Open Ephys GUI (InfoObjects.cpp):       *)
(* HistoryObject, NamedInfoObject, InfoObjectCommon, DataChannel,          *)
(* EventChannel and SpikeChannel.  One descriptor object is under study in *)
(* every behaviour; its members are the fields of the record ch.           *)
(***************************************************************************)
EXTENDS Integers, Sequences, FiniteSets, TLC

VARIABLES
    kind,            \* class of the object under study, or "none" before construction
    ch,              \* the object's data members (a record keyed by member name)
    copy,            \* a DataChannel copy-constructed from ch, or NoObject
    jassertTraps,    \* whether a failed jassert stops the program in this build/run
    ctor,            \* history variable: the constructor's arguments
    lastOp,          \* history variable: name of the most recent operation
    lastArg,         \* history variable: argument of the most recent operation
    argNumChannels,  \* history variable: argument of the most recent setNumChannels
    argLength,       \* history variable: argument of the most recent setLength
    histLog          \* history variable: every value m_historicString has had

vars == <<kind, ch, copy, jassertTraps, ctor, lastOp, lastArg,
          argNumChannels, argLength, histLog>>

None == "none"
NoObject == [absent |-> TRUE]

\* argNumChannels, argLength before the first call
NoCall == <<-1, -1>>

(***************************************************************************)
(* Machine integers.  The model checker's integers are narrower than the   *)
(* program's unsigned int, so a value is kept as two 16-bit limbs          *)
(* <<hi, lo>> = hi * 2^16 + lo.  An unsigned int has hi < 2^16 and its     *)
(* arithmetic wraps at 2^32; a size_t (64 bits) has a wider hi, and no     *)
(* value computed here comes near 2^64.                                    *)
(***************************************************************************)
Base == 256 * 256

Num(k) == <<k \div Base, k % Base>>

UIntMax == <<Base - 1, Base - 1>>

\* unsigned int a + k for a small k: wraps modulo 2^32
AddUInt(a, k) ==
    LET lo == a[2] + k
    IN  <<(a[1] + (lo \div Base)) % Base, lo % Base>>

\* a / d (truncating) for a small divisor d
DivSmall(a, d) == <<a[1] \div d, (((a[1] % d) * Base) + a[2]) \div d>>

ModSmall(a, d) == (((a[1] % d) * Base) + a[2]) % d

\* size_t a * k and a + k for a small k (no wrap below 2^64)
MulSize(a, k) ==
    LET lo == a[2] * k
    IN  <<(a[1] * k) + (lo \div Base), lo % Base>>

AddSize(a, k) ==
    LET lo == a[2] + k
    IN  <<a[1] + (lo \div Base), lo % Base>>

\* the mathematical ceil(a / 8), computed without any addition to a
CeilDiv8(a) ==
    IF ModSmall(a, 8) = 0 THEN DivSmall(a, 8) ELSE AddSize(DivSmall(a, 8), 1)

\* a float holding an integer value, in thousandths
FloatOf(i) == i * 1000

ToUint16(x) == x % Base

(***************************************************************************)
(* Strings are sequences of characters.                                    *)
(***************************************************************************)
Arrow == <<" ", "-", ">", " ">>

IsPrefix(s, t) == Len(s) <= Len(t) /\ SubSeq(t, 1, Len(s)) = s

(***************************************************************************)
(* Enumerations, input sets and bounds                                     *)
(***************************************************************************)
ArrayTypes == {"INT8_ARRAY", "UINT8_ARRAY", "INT16_ARRAY", "UINT16_ARRAY",
               "INT32_ARRAY", "UINT32_ARRAY", "INT64_ARRAY", "UINT64_ARRAY"}

EventChannelTypes == {"TTL", "TEXT"} \cup ArrayTypes

DataChannelTypes == {"HEADSTAGE_CHANNEL", "AUX_CHANNEL", "ADC_CHANNEL"}

ElectrodeTypes == {"SINGLE", "STEREOTRODE", "TETRODE"}

\* the channel counts the specification tests, and the example sequence 12, 16, 17
TestedNumChannels == {Num(0), Num(1), Num(7), Num(8), Num(9), Num(64),
                      Num(12), Num(16), Num(17)}

\* the top of the unsigned int range: 2^32 - 8 .. 2^32 - 1
HighNumChannels == {<<Base - 1, Base - k>> : k \in 1..8}

NumChannelsInputs == TestedNumChannels \cup HighNumChannels

LengthInputs == {Num(0), Num(1), Num(10), UIntMax}

\* member values before the first setter call (the in-class initialisers are
\* declared in InfoObjects.h): drawn from unrelated values
InitialCounts == {Num(1), Num(5)}

DefaultSampleRate == 44100

SampleRates == {FloatOf(DefaultSampleRate), FloatOf(30000)}

BitVoltsValues == {FloatOf(1), 195}

GainValues == {FloatOf(1), FloatOf(2)}

Names == {"CH1", "ADC2"}

\* (idx, typeidx, source, subproc) argument tuples of the constructors
CtorArgs == {[idx |-> 0, typeidx |-> 0, source |-> [nodeId |-> 100, name |-> "Rhythm FPGA"], subproc |-> 0],
             [idx |-> 5, typeidx |-> 2, source |-> [nodeId |-> 101, name |-> "File Reader"], subproc |-> 1]}

(***************************************************************************)
(* InfoObjectCommon, NodeInfoBase, SourceProcessorInfo, NamedInfoObject    *)
(***************************************************************************)
\* the members the base-class constructors set; source.nodeId and source.name
\* are what the processor's nodeId / getNodeId() and getName() give
InfoObjectCommon(idx, typeidx, source, subproc) ==
    [m_nodeID             |-> ToUint16(source.nodeId),
     m_sourceNodeID       |-> ToUint16(source.nodeId),
     m_sourceSubNodeIndex |-> ToUint16(subproc),
     m_sourceType         |-> source.name,
     m_sourceName         |-> source.name,
     m_sourceIndex        |-> ToUint16(idx),
     m_sourceTypeIndex    |-> ToUint16(typeidx)]

\* mutant: the name is stored in the provenance's source name
setName_WritesSourceName(o, name) == [o EXCEPT !.m_sourceName = name]

setName(o, name) == [o EXCEPT !.m_name = name]

setDescriptor(o, descriptor) == [o EXCEPT !.m_descriptor = descriptor]

setDescription(o, description) == [o EXCEPT !.m_description = description]

setSampleRate(o, sampleRate) == [o EXCEPT !.m_sampleRate = sampleRate]

(***************************************************************************)
(* EventChannel                                                            *)
(***************************************************************************)
getTypeByteSize(type) ==
    CASE type = "INT8_ARRAY"   -> 1
      [] type = "UINT8_ARRAY"  -> 1
      [] type = "INT16_ARRAY"  -> 2
      [] type = "UINT16_ARRAY" -> 2
      [] type = "INT32_ARRAY"  -> 4
      [] type = "UINT32_ARRAY" -> 4
      [] type = "INT64_ARRAY"  -> 8
      [] type = "UINT64_ARRAY" -> 8
      [] OTHER                 -> 1

\* mutants of the sizing rules: floor instead of ceiling, no type test,
\* no terminator byte, no early return for TTL
setNumChannels_FloorDivision(o, numChannels) ==
    IF o.m_type = "TTL"
    THEN LET length == DivSmall(numChannels, 8)
         IN  [o EXCEPT !.m_numChannels = numChannels,
                       !.m_length = length,
                       !.m_dataSize = length]
    ELSE [o EXCEPT !.m_numChannels = numChannels]

setNumChannels_NoTypeCheck(o, numChannels) ==
    LET length == DivSmall(AddUInt(numChannels, 7), 8)
    IN  [o EXCEPT !.m_numChannels = numChannels,
                  !.m_length = length,
                  !.m_dataSize = length]

setLength_NoTerminator(o, length) ==
    IF o.m_type = "TTL"
    THEN o
    ELSE [o EXCEPT !.m_length = length,
                   !.m_dataSize = MulSize(length, getTypeByteSize(o.m_type))]

setLength_NoTTLGuard(o, length) ==
    [o EXCEPT !.m_length = length,
              !.m_dataSize = MulSize(length, getTypeByteSize(o.m_type))]

EventChannel_setNumChannels(o, numChannels) ==
    IF o.m_type = "TTL"
    THEN LET length == DivSmall(AddUInt(numChannels, 7), 8)
         IN  [o EXCEPT !.m_numChannels = numChannels,
                       !.m_length = length,
                       !.m_dataSize = length]
    ELSE [o EXCEPT !.m_numChannels = numChannels]

EventChannel_setLength(o, length) ==
    IF o.m_type = "TTL"
    THEN o
    ELSE LET dataSize == MulSize(length, getTypeByteSize(o.m_type))
         IN  [o EXCEPT !.m_length = length,
                       !.m_dataSize = IF o.m_type = "TEXT"
                                      THEN AddSize(dataSize, 1)
                                      ELSE dataSize]

EventChannel_setShouldBeRecorded(o, status) == [o EXCEPT !.m_shouldBeRecorded = status]

\* members every descriptor has besides those InfoObjectCommon's constructor sets
NamedMembers(name, sampleRate) ==
    [m_name |-> name, m_descriptor |-> "", m_description |-> "",
     m_sampleRate |-> sampleRate]

Merge(r, s) ==
    [f \in DOMAIN r \cup DOMAIN s |-> IF f \in DOMAIN s THEN s[f] ELSE r[f]]

EventChannel(type, a, numChannels, length, dataSize, rec, name, rate) ==
    Merge(Merge(InfoObjectCommon(a.idx, a.typeidx, a.source, a.subproc),
                NamedMembers(name, rate)),
          [m_type |-> type, m_numChannels |-> numChannels, m_length |-> length,
           m_dataSize |-> dataSize, m_shouldBeRecorded |-> rec])

\* history variables after an operation
Did(op, arg) ==
    /\ lastOp' = op
    /\ lastArg' = arg

SetNumChannels(numChannels) ==
    /\ kind = "EventChannel"
    /\ ch' = EventChannel_setNumChannels(ch, numChannels)
    /\ Did("setNumChannels", numChannels)
    /\ argNumChannels' = numChannels
    /\ UNCHANGED <<kind, copy, jassertTraps, ctor, argLength, histLog>>

SetLength(length) ==
    /\ kind = "EventChannel"
    /\ ch' = EventChannel_setLength(ch, length)
    /\ Did("setLength", length)
    /\ argLength' = length
    /\ UNCHANGED <<kind, copy, jassertTraps, ctor, argNumChannels, histLog>>

SetShouldBeRecorded(status) ==
    /\ kind = "EventChannel"
    /\ ch' = EventChannel_setShouldBeRecorded(ch, status)
    /\ Did("setShouldBeRecorded", status)
    /\ UNCHANGED <<kind, copy, jassertTraps, ctor, argNumChannels, argLength, histLog>>

InitHistoryVars ==
    /\ copy = NoObject
    /\ lastOp = None
    /\ lastArg = None
    /\ argNumChannels = NoCall
    /\ argLength = NoCall
    /\ histLog = <<>>

InitEvent ==
    /\ kind = "EventChannel"
    /\ ctor \in [type : EventChannelTypes, args : CtorArgs]
    /\ \E n \in InitialCounts, l \in InitialCounts, d \in InitialCounts, r \in BOOLEAN :
          ch = EventChannel(ctor.type, ctor.args, n, l, d, r,
                            "", FloatOf(DefaultSampleRate))
    /\ jassertTraps = FALSE
    /\ InitHistoryVars

NextEvent ==
    \/ \E n \in NumChannelsInputs : SetNumChannels(n)
    \/ \E l \in LengthInputs : SetLength(l)
    \/ \E s \in BOOLEAN : SetShouldBeRecorded(s)

SpecEvent == InitEvent /\ [][NextEvent]_vars

(***************************************************************************)
(* Properties of the EventChannel sizing rule (checked under SpecEvent)    *)
(***************************************************************************)
IsTTL == kind = "EventChannel" /\ ch.m_type = "TTL"

IsNonTTL == kind = "EventChannel" /\ ch.m_type # "TTL"

\* C1: on a TTL channel, once setNumChannels has been called, length is
\* ceil(n/8) and dataSize equals length, n being the argument of the most
\* recent setNumChannels call, for n in {0,1,7,8,9,64}; and the sequence
\* 12, 16, 17 gives the lengths 2, 2, 3.
C1_TTLLengthIsCeil ==
    (IsTTL /\ argNumChannels # NoCall /\ argNumChannels \in TestedNumChannels) =>
        /\ ch.m_length = CeilDiv8(argNumChannels)
        /\ ch.m_dataSize = ch.m_length
        /\ (argNumChannels = Num(12) => ch.m_length = Num(2))
        /\ (argNumChannels = Num(16) => ch.m_length = Num(2))
        /\ (argNumChannels = Num(17) => ch.m_length = Num(3))

C1_Witness ==
    /\ IsTTL
    /\ argNumChannels = Num(17)
    /\ argLength # NoCall
    /\ lastOp = "setLength"
    /\ ch.m_length = Num(3)
    /\ ch.m_dataSize = Num(3)

\* the element widths the specification gives for the array types
C2_ElementByteSize(type) ==
    CASE type \in {"INT8_ARRAY", "UINT8_ARRAY"}   -> 1
      [] type \in {"INT16_ARRAY", "UINT16_ARRAY"} -> 2
      [] type \in {"INT32_ARRAY", "UINT32_ARRAY"} -> 4
      [] type \in {"INT64_ARRAY", "UINT64_ARRAY"} -> 8
      [] type \in {"TTL", "TEXT"}                 -> 1

\* C2: on a non-TTL channel, once setLength has been called, dataSize is
\* L * elementByteSize(type) for the eight array types and L * 1 + 1 for
\* Text, L being the argument of the most recent setLength call.
C2_DataSizeFromLength ==
    (IsNonTTL /\ argLength # NoCall) =>
        /\ ch.m_type \in ArrayTypes =>
              ch.m_dataSize = MulSize(argLength, C2_ElementByteSize(ch.m_type))
        /\ ch.m_type = "TEXT" =>
              ch.m_dataSize = AddSize(MulSize(argLength, 1), 1)
        /\ (ch.m_type = "TEXT" /\ argLength = Num(10)) => ch.m_dataSize = Num(11)

C2_Witness ==
    /\ IsNonTTL
    /\ ch.m_type = "TEXT"
    /\ argLength = Num(10)
    /\ argNumChannels # NoCall
    /\ lastOp = "setNumChannels"
    /\ ch.m_dataSize = Num(11)

\* C3: setLength(x) on a TTL channel leaves every member unchanged
\* (length, dataSize, numChannels, shouldBeRecorded and all the others).
C3_SetLengthOnTTLIsNoOp ==
    [][(IsTTL /\ lastOp' = "setLength") =>
          /\ ch'.m_length = ch.m_length
          /\ ch'.m_dataSize = ch.m_dataSize
          /\ ch'.m_numChannels = ch.m_numChannels
          /\ ch'.m_shouldBeRecorded = ch.m_shouldBeRecorded
          /\ ch' = ch]_vars

C3_Witness ==
    /\ IsTTL
    /\ lastOp = "setLength"
    /\ lastArg # ch.m_length
    /\ MulSize(lastArg, 1) # ch.m_dataSize

\* C4: setNumChannels(n) on a non-TTL channel changes numChannels to n and
\* nothing else: length and dataSize keep their values.
C4_SetNumChannelsOnNonTTL ==
    [][(IsNonTTL /\ lastOp' = "setNumChannels") =>
          /\ ch'.m_numChannels = lastArg'
          /\ ch'.m_length = ch.m_length
          /\ ch'.m_dataSize = ch.m_dataSize
          /\ ch' = [ch EXCEPT !.m_numChannels = lastArg']]_vars

C4_Witness ==
    /\ IsNonTTL
    /\ lastOp = "setNumChannels"
    /\ ch.m_numChannels = lastArg
    /\ ch.m_length # CeilDiv8(lastArg)

\* C10: for every unsigned int n, 0 .. 2^32 - 1, setNumChannels(n) on a TTL
\* channel gives length = ceil(n/8): (n + 7) / 8 never wraps around.
C10_LengthIsCeilForEveryUInt ==
    (IsTTL /\ argNumChannels # NoCall) => ch.m_length = CeilDiv8(argNumChannels)

(***************************************************************************)
(* HistoryObject                                                           *)
(***************************************************************************)
\* mutant: the entry replaces the string instead of being appended
addToHistoricString_Overwrite(o, entry) == [o EXCEPT !.m_historicString = entry]

addToHistoricString(o, entry) ==
    IF o.m_historicString = <<>>
    THEN [o EXCEPT !.m_historicString = entry]
    ELSE [o EXCEPT !.m_historicString = o.m_historicString \o (Arrow \o entry)]

(***************************************************************************)
(* DataChannel                                                             *)
(***************************************************************************)
DataChannel(type, a, bitVolts, enabled, monitored, recording, rate) ==
    Merge(Merge(InfoObjectCommon(a.idx, a.typeidx, a.source, a.subproc),
                NamedMembers("", rate)),
          [m_type |-> type, m_bitVolts |-> bitVolts, m_isEnabled |-> enabled,
           m_isMonitored |-> monitored, m_isRecording |-> recording,
           m_historicString |-> <<>>])

\* mutant: a member-wise copy, runtime flags included
DataChannel_CopyWithFlags(c) == c

\* DataChannel(const DataChannel& ch): the bases are copied whole, m_type and
\* m_bitVolts are copied, the three flags are set
DataChannel_copy(c) ==
    [c EXCEPT !.m_isEnabled = TRUE,
              !.m_isMonitored = FALSE,
              !.m_isRecording = FALSE]

setBitVolts(o, bitVolts) == [o EXCEPT !.m_bitVolts = bitVolts]

setEnable(o, e) == [o EXCEPT !.m_isEnabled = e]

setMonitored(o, e) == [o EXCEPT !.m_isMonitored = e]

setRecordState(o, t) == [o EXCEPT !.m_isRecording = t]

\* mutant: the sample rate is left as it is
reset_KeepSampleRate(o) ==
    [o EXCEPT !.m_bitVolts = FloatOf(1),
              !.m_isEnabled = TRUE,
              !.m_isMonitored = FALSE,
              !.m_isRecording = FALSE]

reset(o) ==
    setSampleRate([o EXCEPT !.m_bitVolts = FloatOf(1),
                            !.m_isEnabled = TRUE,
                            !.m_isMonitored = FALSE,
                            !.m_isRecording = FALSE],
                  FloatOf(DefaultSampleRate))

(***************************************************************************)
(* SpikeChannel                                                            *)
(***************************************************************************)
SpikeChannel_getNumChannels(type) ==
    CASE type = "SINGLE"      -> 1
      [] type = "STEREOTRODE" -> 2
      [] type = "TETRODE"     -> 4
      [] OTHER                -> 1

\* the body of the constructor: one sourceChannelInfo per source channel
SpikeChannel(type, a, sourceChannels, gain, pre, post, rate) ==
    Merge(Merge(InfoObjectCommon(a.idx, a.typeidx, a.source, a.subproc),
                NamedMembers("", rate)),
          [m_type |-> type,
           m_sourceInfo |->
               [i \in 1..Len(sourceChannels) |->
                   [processorID    |-> sourceChannels[i].m_sourceNodeID,
                    subProcessorID |-> sourceChannels[i].m_sourceSubNodeIndex,
                    channelIDX     |-> sourceChannels[i].m_sourceIndex]],
           m_gain |-> gain, m_numPreSamples |-> pre, m_numPostSamples |-> post])

setGain(o, gain) == [o EXCEPT !.m_gain = gain]

setNumSamples(o, preSamples, postSamples) ==
    [o EXCEPT !.m_numPreSamples = preSamples, !.m_numPostSamples = postSamples]

(***************************************************************************)
(* Operations on a constructed descriptor                                  *)
(***************************************************************************)
Descriptors == {"DataChannel", "EventChannel", "SpikeChannel"}

\* bound on the number of addToHistoricString calls in a behaviour
MaxHistoryCalls == 4

\* bound on the number of source channels handed to SpikeChannel's constructor
MaxSourceChannels == 5

Entries == {<<>>, <<"a">>, <<"b">>, <<"a", "b">>}

SampleCounts == {Num(8), Num(32)}

\* DataChannels a SpikeChannel can be built from
SourceDataChannels ==
    {DataChannel("HEADSTAGE_CHANNEL", a, FloatOf(1), TRUE, FALSE, FALSE,
                 FloatOf(DefaultSampleRate)) : a \in CtorArgs}

SourceChannelArrays ==
    UNION {[1..n -> SourceDataChannels] : n \in 0..MaxSourceChannels}

SetName(name) ==
    /\ kind \in Descriptors
    /\ ch' = setName(ch, name)
    /\ Did("setName", name)
    /\ UNCHANGED <<kind, copy, jassertTraps, ctor, argNumChannels, argLength, histLog>>

SetDescriptor(descriptor) ==
    /\ kind \in Descriptors
    /\ ch' = setDescriptor(ch, descriptor)
    /\ Did("setDescriptor", descriptor)
    /\ UNCHANGED <<kind, copy, jassertTraps, ctor, argNumChannels, argLength, histLog>>

SetDescription(description) ==
    /\ kind \in Descriptors
    /\ ch' = setDescription(ch, description)
    /\ Did("setDescription", description)
    /\ UNCHANGED <<kind, copy, jassertTraps, ctor, argNumChannels, argLength, histLog>>

SetSampleRate(sampleRate) ==
    /\ kind \in Descriptors
    /\ ch' = setSampleRate(ch, sampleRate)
    /\ Did("setSampleRate", sampleRate)
    /\ UNCHANGED <<kind, copy, jassertTraps, ctor, argNumChannels, argLength, histLog>>

AddToHistoricString(entry) ==
    /\ kind = "DataChannel"
    /\ Len(histLog) < MaxHistoryCalls
    /\ ch' = addToHistoricString(ch, entry)
    /\ histLog' = Append(histLog, ch.m_historicString)
    /\ Did("addToHistoricString", entry)
    /\ UNCHANGED <<kind, copy, jassertTraps, ctor, argNumChannels, argLength>>

SetBitVolts(bitVolts) ==
    /\ kind = "DataChannel"
    /\ ch' = setBitVolts(ch, bitVolts)
    /\ Did("setBitVolts", bitVolts)
    /\ UNCHANGED <<kind, copy, jassertTraps, ctor, argNumChannels, argLength, histLog>>

SetEnable(e) ==
    /\ kind = "DataChannel"
    /\ ch' = setEnable(ch, e)
    /\ Did("setEnable", e)
    /\ UNCHANGED <<kind, copy, jassertTraps, ctor, argNumChannels, argLength, histLog>>

SetMonitored(e) ==
    /\ kind = "DataChannel"
    /\ ch' = setMonitored(ch, e)
    /\ Did("setMonitored", e)
    /\ UNCHANGED <<kind, copy, jassertTraps, ctor, argNumChannels, argLength, histLog>>

SetRecordState(t) ==
    /\ kind = "DataChannel"
    /\ ch' = setRecordState(ch, t)
    /\ Did("setRecordState", t)
    /\ UNCHANGED <<kind, copy, jassertTraps, ctor, argNumChannels, argLength, histLog>>

Reset ==
    /\ kind = "DataChannel"
    /\ ch' = reset(ch)
    /\ Did("reset", None)
    /\ UNCHANGED <<kind, copy, jassertTraps, ctor, argNumChannels, argLength, histLog>>

\* DataChannel copy(ch): the source is taken by const reference
CopyConstruct ==
    /\ kind = "DataChannel"
    /\ copy' = DataChannel_copy(ch)
    /\ Did("copy", None)
    /\ UNCHANGED <<kind, ch, jassertTraps, ctor, argNumChannels, argLength, histLog>>

\* new SpikeChannel(type, idx, typeidx, source, sourceChannels, subproc).
\* jassert(n == getNumChannels(type)) is JUCE's debug assertion: it is compiled
\* out of a release build, and in a debug build it stops the program only
\* when a debugger is attached; otherwise the constructor carries on.
ConstructSpikeChannel(type, a, sourceChannels) ==
    /\ kind = None
    /\ ctor' = [type |-> type, args |-> a]
    /\ IF Len(sourceChannels) # SpikeChannel_getNumChannels(type) /\ jassertTraps
       THEN kind' = "trapped" /\ ch' = NoObject
       ELSE /\ kind' = "SpikeChannel"
            /\ \E g \in GainValues :
                  ch' = SpikeChannel(type, a, sourceChannels, g, Num(8), Num(32),
                                     FloatOf(DefaultSampleRate))
    /\ Did("SpikeChannel", Len(sourceChannels))
    /\ UNCHANGED <<copy, jassertTraps, argNumChannels, argLength, histLog>>

SetGain(gain) ==
    /\ kind = "SpikeChannel"
    /\ ch' = setGain(ch, gain)
    /\ Did("setGain", gain)
    /\ UNCHANGED <<kind, copy, jassertTraps, ctor, argNumChannels, argLength, histLog>>

SetNumSamples(preSamples, postSamples) ==
    /\ kind = "SpikeChannel"
    /\ ch' = setNumSamples(ch, preSamples, postSamples)
    /\ Did("setNumSamples", <<preSamples, postSamples>>)
    /\ UNCHANGED <<kind, copy, jassertTraps, ctor, argNumChannels, argLength, histLog>>

(***************************************************************************)
(* DataChannel: flags, scale, reset and copy                               *)
(***************************************************************************)
InitData ==
    /\ kind = "DataChannel"
    /\ ctor \in [type : DataChannelTypes, args : CtorArgs]
    /\ \E b \in BitVoltsValues, e \in BOOLEAN, m \in BOOLEAN, r \in BOOLEAN,
          s \in SampleRates :
          ch = DataChannel(ctor.type, ctor.args, b, e, m, r, s)
    /\ jassertTraps = FALSE
    /\ InitHistoryVars

NextData ==
    \/ \E b \in BitVoltsValues : SetBitVolts(b)
    \/ \E e \in BOOLEAN : SetEnable(e)
    \/ \E e \in BOOLEAN : SetMonitored(e)
    \/ \E t \in BOOLEAN : SetRecordState(t)
    \/ \E s \in SampleRates : SetSampleRate(s)
    \/ \E n \in Names : SetName(n)
    \/ Reset
    \/ CopyConstruct

SpecData == InitData /\ [][NextData]_vars

(***************************************************************************)
(* HistoryObject: the history string of a DataChannel                      *)
(***************************************************************************)
InitHistoryObject ==
    /\ kind = "DataChannel"
    /\ ctor \in [type : DataChannelTypes, args : CtorArgs]
    /\ ch = DataChannel(ctor.type, ctor.args, FloatOf(1), TRUE, FALSE, FALSE,
                        FloatOf(DefaultSampleRate))
    /\ jassertTraps = FALSE
    /\ InitHistoryVars

NextHistoryObject == \E e \in Entries : AddToHistoricString(e)

SpecHistory == InitHistoryObject /\ [][NextHistoryObject]_vars

(***************************************************************************)
(* SpikeChannel: construction and its setters                              *)
(***************************************************************************)
InitSpike ==
    /\ kind = None
    /\ ch = NoObject
    /\ ctor = None
    /\ jassertTraps \in BOOLEAN
    /\ InitHistoryVars

NextSpike ==
    \/ \E t \in ElectrodeTypes, a \in CtorArgs, sc \in SourceChannelArrays :
          ConstructSpikeChannel(t, a, sc)
    \/ \E g \in GainValues : SetGain(g)
    \/ \E pre \in SampleCounts, post \in SampleCounts : SetNumSamples(pre, post)

SpecSpike == InitSpike /\ [][NextSpike]_vars

(***************************************************************************)
(* Every setter of the three descriptor classes, on small inputs           *)
(***************************************************************************)
FrameSources(type) ==
    [i \in 1..SpikeChannel_getNumChannels(type) |->
        DataChannel("HEADSTAGE_CHANNEL", CHOOSE a \in CtorArgs : a.idx = 0,
                    FloatOf(1), TRUE, FALSE, FALSE, FloatOf(DefaultSampleRate))]

InitFrame ==
    /\ kind \in Descriptors
    /\ \E a \in CtorArgs :
          \/ /\ kind = "EventChannel"
             /\ \E t \in EventChannelTypes :
                   /\ ctor = [type |-> t, args |-> a]
                   /\ ch = EventChannel(t, a, Num(1), Num(1), Num(1), TRUE, "",
                                        FloatOf(DefaultSampleRate))
          \/ /\ kind = "DataChannel"
             /\ \E t \in DataChannelTypes :
                   /\ ctor = [type |-> t, args |-> a]
                   /\ ch = DataChannel(t, a, FloatOf(1), TRUE, FALSE, FALSE,
                                       FloatOf(DefaultSampleRate))
          \/ /\ kind = "SpikeChannel"
             /\ \E t \in ElectrodeTypes :
                   /\ ctor = [type |-> t, args |-> a]
                   /\ ch = SpikeChannel(t, a, FrameSources(t), FloatOf(1), Num(8),
                                        Num(32), FloatOf(DefaultSampleRate))
    /\ jassertTraps = FALSE
    /\ InitHistoryVars

NextFrame ==
    \/ SetName("CH1")
    \/ SetDescriptor("genericdata.continuous")
    \/ SetDescription("Headstage channel")
    \/ SetSampleRate(FloatOf(30000))
    \/ SetBitVolts(195)
    \/ SetEnable(FALSE)
    \/ SetMonitored(TRUE)
    \/ SetRecordState(TRUE)
    \/ Reset
    \/ SetNumChannels(Num(9))
    \/ SetLength(Num(2))
    \/ SetShouldBeRecorded(FALSE)
    \/ SetGain(FloatOf(2))
    \/ SetNumSamples(Num(32), Num(8))
    \/ AddToHistoricString(<<"a">>)

SpecFrame == InitFrame /\ [][NextFrame]_vars

(***************************************************************************)
(* Properties of SpikeChannel, DataChannel, HistoryObject and the          *)
(* construction-time members                                               *)
(***************************************************************************)
\* C5: constructing a SpikeChannel from a list of source channels whose length
\* differs from the electrode type's channel count fails, so every SpikeChannel
\* that exists has as many sourceChannelInfo entries as getNumChannels().
C5_SourceInfoMatchesElectrode ==
    kind = "SpikeChannel" => Len(ch.m_sourceInfo) = SpikeChannel_getNumChannels(ch.m_type)

\* C6: a copy-constructed DataChannel is enabled, not monitored and not
\* recording whatever the source's flags are; its type, bitVolts, source
\* index, source type index and provenance are the source's; and the copy
\* does not change the source.
C6_CopyResetsFlags ==
    [][(kind = "DataChannel" /\ lastOp' = "copy") =>
          /\ copy'.m_isEnabled = TRUE
          /\ copy'.m_isMonitored = FALSE
          /\ copy'.m_isRecording = FALSE
          /\ copy'.m_type = ch.m_type
          /\ copy'.m_bitVolts = ch.m_bitVolts
          /\ copy'.m_sourceIndex = ch.m_sourceIndex
          /\ copy'.m_sourceTypeIndex = ch.m_sourceTypeIndex
          /\ copy'.m_sourceNodeID = ch.m_sourceNodeID
          /\ copy'.m_sourceSubNodeIndex = ch.m_sourceSubNodeIndex
          /\ copy'.m_sourceType = ch.m_sourceType
          /\ copy'.m_sourceName = ch.m_sourceName
          /\ ch' = ch]_vars

C6_Witness ==
    /\ kind = "DataChannel"
    /\ lastOp = "copy"
    /\ ch.m_isEnabled = FALSE
    /\ ch.m_isMonitored = TRUE
    /\ ch.m_isRecording = TRUE
    /\ ch.m_bitVolts = 195
    /\ copy.m_isEnabled = TRUE
    /\ copy.m_bitVolts = 195

\* C7: reset() gives bitVolts 1.0, enabled, not monitored, not recording and
\* a sample rate of 44100 from any state, leaves type, indices, provenance
\* and name alone, and a second reset() changes nothing.
C7_ResetRestoresDefaults ==
    [][(kind = "DataChannel" /\ lastOp' = "reset") =>
          /\ ch'.m_bitVolts = FloatOf(1)
          /\ ch'.m_isEnabled = TRUE
          /\ ch'.m_isMonitored = FALSE
          /\ ch'.m_isRecording = FALSE
          /\ ch'.m_sampleRate = FloatOf(44100)
          /\ ch'.m_type = ch.m_type
          /\ ch'.m_sourceIndex = ch.m_sourceIndex
          /\ ch'.m_sourceTypeIndex = ch.m_sourceTypeIndex
          /\ ch'.m_nodeID = ch.m_nodeID
          /\ ch'.m_sourceNodeID = ch.m_sourceNodeID
          /\ ch'.m_sourceSubNodeIndex = ch.m_sourceSubNodeIndex
          /\ ch'.m_sourceType = ch.m_sourceType
          /\ ch'.m_sourceName = ch.m_sourceName
          /\ ch'.m_name = ch.m_name
          /\ (lastOp = "reset" => ch' = ch)]_vars

\* the copy taken before the reset shows the values the reset replaced
C7_Witness ==
    /\ kind = "DataChannel"
    /\ lastOp = "reset"
    /\ copy # NoObject
    /\ copy.m_bitVolts = 195
    /\ copy.m_sampleRate = FloatOf(30000)
    /\ copy.m_name = "CH1"
    /\ ch.m_name = "CH1"
    /\ ch.m_bitVolts = FloatOf(1)
    /\ ch.m_sampleRate = FloatOf(44100)

\* C8: addToHistoricString(E) gives E when the string was empty and
\* prior + " -> " + E otherwise; the string never gets shorter and every
\* earlier value is a prefix of every later one.
C8_HistoryIsAppendOnly ==
    [][(kind = "DataChannel" /\ lastOp' = "addToHistoricString"
            /\ Len(histLog') = Len(histLog) + 1) =>
          /\ ch'.m_historicString =
                IF ch.m_historicString = <<>>
                THEN lastArg'
                ELSE ch.m_historicString \o <<" ", "-", ">", " ">> \o lastArg'
          /\ Len(ch'.m_historicString) >= Len(ch.m_historicString)
          /\ \A i \in 1..Len(histLog') :
                /\ IsPrefix(histLog'[i], ch'.m_historicString)
                /\ \A j \in i..Len(histLog') : IsPrefix(histLog'[i], histLog'[j])]_vars

C8_Witness ==
    /\ kind = "DataChannel"
    /\ lastOp = "addToHistoricString"
    /\ Len(histLog) = 3
    /\ histLog[2] = <<"a", "b">>
    /\ histLog[3] = <<"a", "b", " ", "-", ">", " ", "b">>
    /\ ch.m_historicString = histLog[3] \o <<" ", "-", ">", " ", "a">>

\* C9: whatever setters are called, sourceIndex, sourceTypeIndex, the channel
\* type, the current node id, the source node id, the sub-stream index, the
\* source type name and the source name keep the values given at construction.
C9_ConstructionMembersAreImmutable ==
    kind \in Descriptors =>
        /\ ch.m_sourceIndex = ctor.args.idx
        /\ ch.m_sourceTypeIndex = ctor.args.typeidx
        /\ ch.m_type = ctor.type
        /\ ch.m_nodeID = ctor.args.source.nodeId
        /\ ch.m_sourceNodeID = ctor.args.source.nodeId
        /\ ch.m_sourceSubNodeIndex = ctor.args.subproc
        /\ ch.m_sourceType = ctor.args.source.name
        /\ ch.m_sourceName = ctor.args.source.name

C9_Witness ==
    /\ kind = "DataChannel"
    /\ lastOp = "reset"
    /\ ch.m_name = "CH1"
    /\ ch.m_descriptor = "genericdata.continuous"
    /\ ch.m_description = "Headstage channel"
    /\ Len(histLog) >= 2
    /\ ch.m_historicString = <<"a", " ", "-", ">", " ", "a">>

====
